---- MODULE Spec2Model ----
(***************************************************************************)
(* Model of the JRA prediction pipeline of src/jra_predict.py: the         *)
(* sufficiency gate, the indicator normaliser, the score combiner, the     *)
(* flatness detector, the display transformer, the pick ranker, the tie    *)
(* jitter and the congestion calculator, and main's per-race loop body     *)
(* that chains them; and of the hit judge, the bet of a race and the       *)
(* cumulative totals of src/jra_result.py.                                 *)
(*                                                                         *)
(* Numbers.  Python floats are modelled as fixed-point integers holding    *)
(* SCALE units per 1.0 (four decimals).  A division rounds to the nearest  *)
(* unit, as a float division rounds to the nearest float.  Raw indicator   *)
(* values are whole numbers of tenths (the kichiuma pattern is -?\d+\.\d). *)
(* math.tanh is tabulated at the integer points 0..100 of its argument     *)
(* range and interpolated linearly in between.                             *)
(***************************************************************************)
EXTENDS Integers, Sequences, FiniteSets, TLC

VARIABLES
    pc,                \* position in main's per-race loop body
    env,               \* the module-level configuration read from os.environ
    race_id,           \* r["race_id"]
    horses,            \* r["horses"]: the field, sorted by umaban
    kichi_raw,         \* parse_kichiuma_fp(...)            umaban -> raw value
    jiro_raw,          \* parse_jiro8_speed_by_race_id(...) umaban -> raw value
    use_kichi,         \* enough_points(len(kichi_raw), field_n, MIN_KICHI_N)
    use_jiro,          \* enough_points(len(jiro_raw),  field_n, MIN_JIRO_N)
    total_0_100,       \* the composite map
    display_scores,    \* build_display_scores(...)[0]
    compressed_0_100,  \* build_display_scores(...)[1]
    picks,             \* make_picks(...), then jittered in place
    md5,               \* the digest prefixes hashlib.md5 gives the seeds used
    konsen,            \* calc_konsen_from_picks(...)
    focus,             \* the focus flag of the output record
    focus_score,       \* the focus_score of the output record
    skip_reason,       \* why the race was left out of preds ("" when it was not)
    fn,                \* unit harness: the function called
    args,              \* unit harness: its arguments
    ret,               \* unit harness: its return value
    cum_file,          \* jra_result.py: content of pnl_total_jra_cum.json
    day_runs           \* the (date, day total) pairs handed to update_cumulative

pvars == <<pc, env, race_id, horses, kichi_raw, jiro_raw, use_kichi, use_jiro,
           total_0_100, display_scores, compressed_0_100, picks, md5, konsen,
           focus, focus_score, skip_reason>>
uvars == <<fn, args, ret>>
rvars == <<cum_file, day_runs>>
vars == <<pvars, uvars, rvars>>

-----------------------------------------------------------------------------
(* Bounds of the model                                                     *)

MaxUmaban == 4          \* horse numbers of the pipeline runs are 1..MaxUmaban
MaxPoints == 9          \* enough_points harness: point counts 0..MaxPoints
MaxFieldSize == 9       \* enough_points harness: field sizes 0..MaxFieldSize
MaxMinN == 9            \* enough_points harness: min_n in -1..MaxMinN
MaxNormKeys == 3        \* normalize_to_0_100 harness: keys 1..MaxNormKeys
MaxCombineKeys == 2
MaxFlatKeys == 11
MaxFlatField == 12
MaxPickField == 6
MaxJitterPicks == 6
MaxKonsenPicks == 5
MaxRecordPicks == 3
MaxDisplaySteps == 40
MaxUpdates == 3
MaxJudgeUmaban == 3
MaxBoxN == 6     \* combine_scores harness: keys 1..MaxCombineKeys

-----------------------------------------------------------------------------
(* Fixed-point arithmetic                                                  *)

SCALE == 100 * 100

Max2(a, b) == IF a >= b THEN a ELSE b
Min2(a, b) == IF a <= b THEN a ELSE b

\* a / b rounded to the nearest integer, b > 0 (halves away from zero)
RoundDiv(a, b) ==
    IF a >= 0 THEN (2 * a + b) \div (2 * b)
    ELSE -((2 * (-a) + b) \div (2 * b))

\* round(x, d): x rounded to a multiple of unit, halves to the even multiple
RoundTo(x, unit) ==
    LET q == x \div unit
        r == x % unit
    IN  IF 2 * r < unit THEN q * unit
        ELSE IF 2 * r > unit THEN (q + 1) * unit
        ELSE IF q % 2 = 0 THEN q * unit ELSE (q + 1) * unit

Round2(x) == RoundTo(x, SCALE \div 100)
Round1(x) == RoundTo(x, SCALE \div 10)

\* dict helpers: a dict is a function whose DOMAIN is its key set
EmptyMap == [k \in {} |-> 0]
Values(m) == {m[k] : k \in DOMAIN m}
SetMax(S) == CHOOSE x \in S : \A y \in S : y <= x
SetMin(S) == CHOOSE x \in S : \A y \in S : x <= y
Get(m, k, default) == IF k \in DOMAIN m THEN m[k] ELSE default

-----------------------------------------------------------------------------
(* Configuration (module-level constants of jra_predict.py at their        *)
(* defaults; the switches and the weights live in env)                     *)

MIN_KICHI_N == 8
MIN_JIRO_N == 8
SCORE_MIN == 1                  \* display points
SCORE_MAX == 70                 \* display points
TIE_JITTER_MAX == 2000          \* 0.2
TIE_JITTER_TRIGGER == 0         \* 0.0
KONSEN_GAP12_MID == 8000        \* 0.8
KONSEN_GAP15_MID == 30000       \* 3.0
FOCUS_TH == 300000              \* 30.0
FLAT_RANGE_MAX == 30000         \* 3.0
FLAT_MIN_COUNT == 10
KONSEN_ZERO_MIN == 12000        \* 1.2
KONSEN_ZERO_MAX == 98000        \* 9.8

-----------------------------------------------------------------------------
(* Sufficiency gate                                                        *)

\* a slip that drops the floor of three points from the threshold
enough_points_nofloor(n_points, field_size, min_n) ==
    IF n_points <= 0 THEN FALSE
    ELSE n_points >= Min2(min_n, Max2(1, field_size - 1))

\* a slip that asks for more points than the threshold
enough_points_strict(n_points, field_size, min_n) ==
    IF n_points <= 0 THEN FALSE
    ELSE n_points > Max2(3, Min2(min_n, Max2(1, field_size - 1)))

enough_points(n_points, field_size, min_n) ==
    IF n_points <= 0 THEN FALSE
    ELSE LET th == Max2(3, Min2(min_n, Max2(1, field_size - 1)))
         IN  n_points >= th

-----------------------------------------------------------------------------
(* Indicator normaliser                                                    *)

\* a slip that scales without subtracting the minimum
normalize_noshift(vals) ==
    IF DOMAIN vals = {} THEN EmptyMap
    ELSE LET mn == SetMin(Values(vals))
             mx == SetMax(Values(vals))
         IN  IF mx = mn THEN [k \in DOMAIN vals |-> 50 * SCALE]
             ELSE [k \in DOMAIN vals |->
                      RoundDiv(vals[k] * 100 * SCALE, mx - mn)]

\* a slip that zero-fills a map without spread
normalize_zerofill(vals) ==
    IF DOMAIN vals = {} THEN EmptyMap
    ELSE LET mn == SetMin(Values(vals))
             mx == SetMax(Values(vals))
         IN  IF mx = mn THEN [k \in DOMAIN vals |-> 0]
             ELSE [k \in DOMAIN vals |->
                      RoundDiv((vals[k] - mn) * 100 * SCALE, mx - mn)]

normalize_to_0_100(vals) ==
    IF DOMAIN vals = {} THEN EmptyMap
    ELSE LET mn == SetMin(Values(vals))
             mx == SetMax(Values(vals))
         IN  IF mx = mn THEN [k \in DOMAIN vals |-> 50 * SCALE]
             ELSE [k \in DOMAIN vals |->
                      RoundDiv((vals[k] - mn) * 100 * SCALE, mx - mn)]

-----------------------------------------------------------------------------
(* Score combiner; the weights are percentages (KICHI_W 0.80 is 80)        *)

\* a slip that swaps the two weights
combine_swapped(kichi_norm, jiro_norm) ==
    [k \in (DOMAIN kichi_norm) \cup (DOMAIN jiro_norm) |->
        IF k \notin DOMAIN kichi_norm THEN jiro_norm[k]
        ELSE IF k \notin DOMAIN jiro_norm THEN kichi_norm[k]
        ELSE RoundDiv(env.JIRO_W * kichi_norm[k] + env.KICHI_W * jiro_norm[k],
                      100)]

\* a slip that weights a value present in one source only
combine_scaled_single(kichi_norm, jiro_norm) ==
    [k \in (DOMAIN kichi_norm) \cup (DOMAIN jiro_norm) |->
        IF k \notin DOMAIN kichi_norm
        THEN RoundDiv(env.JIRO_W * jiro_norm[k], 100)
        ELSE IF k \notin DOMAIN jiro_norm
        THEN RoundDiv(env.KICHI_W * kichi_norm[k], 100)
        ELSE RoundDiv(env.KICHI_W * kichi_norm[k] + env.JIRO_W * jiro_norm[k],
                      100)]

combine_scores(kichi_norm, jiro_norm) ==
    [k \in (DOMAIN kichi_norm) \cup (DOMAIN jiro_norm) |->
        IF k \notin DOMAIN kichi_norm THEN jiro_norm[k]
        ELSE IF k \notin DOMAIN jiro_norm THEN kichi_norm[k]
        ELSE RoundDiv(env.KICHI_W * kichi_norm[k] + env.JIRO_W * jiro_norm[k],
                      100)]

-----------------------------------------------------------------------------
(* Flatness detector                                                       *)

\* a slip that leaves the boundary out
is_flat_score_strict(score_by_umaban, field_n) ==
    /\ Cardinality(DOMAIN score_by_umaban)
          >= Max2(1, Min2(FLAT_MIN_COUNT, Max2(3, field_n)))
    /\ SetMax(Values(score_by_umaban)) - SetMin(Values(score_by_umaban))
          < FLAT_RANGE_MAX

\* a slip that judges any number of values
is_flat_score_anycount(score_by_umaban, field_n) ==
    /\ DOMAIN score_by_umaban # {}
    /\ SetMax(Values(score_by_umaban)) - SetMin(Values(score_by_umaban))
          <= FLAT_RANGE_MAX

is_flat_score(score_by_umaban, field_n) ==
    IF DOMAIN score_by_umaban = {} THEN FALSE
    ELSE LET xs == Values(score_by_umaban)
             need == Min2(FLAT_MIN_COUNT, Max2(3, field_n))
         IN  IF Cardinality(DOMAIN score_by_umaban) < need THEN FALSE
             ELSE SetMax(xs) - SetMin(xs) <= FLAT_RANGE_MAX

-----------------------------------------------------------------------------
(* Display transformer                                                     *)

\* 50 + 50 * tanh((v - 50) / COMPRESS_WIDTH) at v = 0, 1, ..., 100, for the
\* default COMPRESS_WIDTH of 18.0
CompressTable ==
    <<
       3851, 4302, 4805, 5366, 5993, 6693, 7474, 8344,
       9316, 10399, 11607, 12954, 14454, 16125, 17986, 20058,
       22362, 24924, 27772, 30935, 34445, 38338, 42651, 47426,
       52706, 58537, 64969, 72054, 79846, 88400, 97773, 108022,
       119203, 131371, 144578, 158869, 174285, 190858, 208609, 227546,
       247664, 268941, 291339, 314799, 339244, 364576, 390682, 417430,
       444672, 472251, 500000, 527749, 555328, 582570, 609318, 635424,
       660756, 685201, 708661, 731059, 752336, 772454, 791391, 809142,
       825715, 841131, 855422, 868629, 880797, 891978, 902227, 911600,
       920154, 927946, 935031, 941463, 947294, 952574, 957349, 961662,
       965555, 969065, 972228, 975076, 977638, 979942, 982014, 983875,
       985546, 987046, 988393, 989601, 990684, 991656, 992526, 993307,
       994007, 994634, 995195, 995698, 996149>>

Clamp0_100(v) == Max2(0, Min2(100 * SCALE, v))

\* a slip that takes the tanh curve upside down
compress_0_100_mirrored(v) ==
    IF ~env.COMPRESS_ENABLE THEN Clamp0_100(v)
    ELSE LET i == Clamp0_100(v) \div SCALE
         IN  Clamp0_100(100 * SCALE - CompressTable[i + 1])

compress_0_100(v) ==
    LET vv == Clamp0_100(v)
        i  == vv \div SCALE
        f  == vv % SCALE
        y  == IF i >= 100 THEN CompressTable[101]
              ELSE CompressTable[i + 1]
                   + RoundDiv((CompressTable[i + 2] - CompressTable[i + 1]) * f,
                              SCALE)
    IN  IF ~env.COMPRESS_ENABLE THEN vv ELSE Clamp0_100(y)

\* a slip that forgets the offset SCORE_MIN
scale_score_nooffset(v) ==
    RoundDiv(Clamp0_100(v) * (SCORE_MAX - SCORE_MIN), 100)

scale_score_0_100_to_range(v) ==
    LET vv == Clamp0_100(v)
    IN  SCORE_MIN * SCALE + RoundDiv(vv * (SCORE_MAX - SCORE_MIN), 100)

build_display_scores(total) ==
    LET compressed == [k \in DOMAIN total |-> compress_0_100(total[k])]
        display == [k \in DOMAIN total |->
                       scale_score_0_100_to_range(compressed[k])]
    IN  [display |-> display, compressed |-> compressed]

-----------------------------------------------------------------------------
(* Seeded pseudo-random fraction                                           *)
(*                                                                         *)
(* int(h[:8], 16) is a 32-bit number, held as two 16-bit limbs <<hi, lo>>. *)
(* The fraction returned is that number over HashDen = 0xFFFFFFFF.  Seeds: *)
(* the horse number u stands for f"{race_id}:{u}" and KonsenSeed for       *)
(* race_id + ":konsen0".                                                   *)

Limb == 65536
HashDen == <<Limb - 1, Limb - 1>>
KonsenSeed == 0

stable_hash_to_0_1(seed) == [num |-> md5[seed], den |-> HashDen]

\* x < y for two 32-bit numbers in limbs
LimbLess(x, y) == x[1] < y[1] \/ (x[1] = y[1] /\ x[2] < y[2])

FracIsBelowOne(r) == LimbLess(r.num, r.den)

\* floor(r * k) for a fraction r over 0xFFFFFFFF and 0 <= k < 2^15
FracTimes(r, k) ==
    LET p  == r.num[2] * k
        q  == r.num[1] * k + p \div Limb
        p0 == p % Limb
        n1 == q \div Limb
        r0 == q % Limb
    IN  n1 + (IF r0 = Limb - 1 /\ p0 >= Limb - 1 - n1 THEN 1 ELSE 0)

-----------------------------------------------------------------------------
(* Optional values: None is the empty tuple, a value v is <<v>>            *)

None == <<>>
Some(v) == <<v>>

-----------------------------------------------------------------------------
(* Pick ranker                                                             *)

MARKS5 == <<"double circle", "circle", "black triangle", "white triangle", "star">>

\* list.sort(key=score, reverse=True) is stable: x goes behind every entry
\* whose score is at least its own
\* a slip that puts x in front of the entries with its own score
RECURSIVE InsertDesc_before(_, _)
InsertDesc_before(sorted, x) ==
    IF sorted = <<>> THEN <<x>>
    ELSE IF Head(sorted).sc > x.sc
         THEN <<Head(sorted)>> \o InsertDesc_before(Tail(sorted), x)
         ELSE <<x>> \o sorted

RECURSIVE InsertDesc(_, _)
InsertDesc(sorted, x) ==
    IF sorted = <<>> THEN <<x>>
    ELSE IF Head(sorted).sc >= x.sc
         THEN <<Head(sorted)>> \o InsertDesc(Tail(sorted), x)
         ELSE <<x>> \o sorted

RECURSIVE SortDesc(_)
SortDesc(s) ==
    IF s = <<>> THEN <<>>
    ELSE InsertDesc(SortDesc(SubSeq(s, 1, Len(s) - 1)), s[Len(s)])

\* a slip that ranks the keys of the display map instead of the field
make_picks_bykeys(hs, total_score_scaled, total_score_raw01) ==
    LET keys == SelectSeq([u \in 1..18 |-> u],
                          LAMBDA u : u \in DOMAIN total_score_scaled)
        ranked == SortDesc([i \in 1..Len(keys) |->
                     [sc |-> total_score_scaled[keys[i]], h |-> keys[i]]])
    IN  [i \in 1..Min2(5, Len(ranked)) |->
            [mark |-> MARKS5[i],
             umaban |-> ranked[i].h,
             score |-> Round2(ranked[i].sc),
             raw_0_100 |-> IF DOMAIN total_score_raw01 # {}
                           THEN Some(Round1(Get(total_score_raw01,
                                                ranked[i].h, 0)))
                           ELSE None]]

make_picks(hs, total_score_scaled, total_score_raw01) ==
    LET ranked == SortDesc([i \in 1..Len(hs) |->
                     [sc |-> Get(total_score_scaled, hs[i], 0), h |-> hs[i]]])
    IN  [i \in 1..Min2(5, Len(ranked)) |->
            [mark |-> MARKS5[i],
             umaban |-> ranked[i].h,
             score |-> Round2(ranked[i].sc),
             raw_0_100 |-> IF DOMAIN total_score_raw01 # {}
                           THEN Some(Round1(Get(total_score_raw01,
                                                ranked[i].h, 0)))
                           ELSE None]]

-----------------------------------------------------------------------------
(* Tie jitter (changes the picks in place; here it returns the new list)   *)

\* a slip that jitters whether or not TIE_JITTER_ENABLE is set
JitterTriggers_always(ps) ==
    /\ ps # <<>>
    /\ ps[1].score >= SCORE_MAX * SCALE - Max2(0, env.TIE_JITTER_TRIGGER)

\* lines 378-390: none of the early returns is taken
JitterTriggers(ps) ==
    /\ env.TIE_JITTER_ENABLE
    /\ ps # <<>>
    /\ ps[1].score >= SCORE_MAX * SCALE - Max2(0, env.TIE_JITTER_TRIGGER)

\* lines 394-402: the new score of one pick
\* a slip that forgets the clamp to SCORE_MIN
JitteredScore_noclamp(p) ==
    Round2(p.score - FracTimes(stable_hash_to_0_1(p.umaban),
                               Max2(0, TIE_JITTER_MAX)))

JitteredScore(p) ==
    LET sc     == p.score
        r01    == stable_hash_to_0_1(p.umaban)
        jitter == FracTimes(r01, Max2(0, TIE_JITTER_MAX))
        new_sc == Max2(SCORE_MIN * SCALE, sc - jitter)
    IN  Round2(new_sc)

\* a slip that drops the [:5] slice
apply_tie_jitter_all(ps, rid) ==
    IF ~JitterTriggers(ps) THEN ps
    ELSE [i \in 1..Len(ps) |-> [ps[i] EXCEPT !.score = JitteredScore(ps[i])]]

\* a slip that seeds the hash with the rank instead of the horse number
apply_tie_jitter_byrank(ps, rid) ==
    IF ~JitterTriggers(ps) THEN ps
    ELSE [i \in 1..Len(ps) |->
            IF i > 5 THEN ps[i]
            ELSE [ps[i] EXCEPT !.score =
                     JitteredScore([ps[i] EXCEPT !.umaban = i])]]

apply_tie_jitter_top5(ps, rid) ==
    IF ~JitterTriggers(ps) THEN ps
    ELSE [i \in 1..Len(ps) |->
            IF i > 5 THEN ps[i]
            ELSE [ps[i] EXCEPT !.score = JitteredScore(ps[i])]]

-----------------------------------------------------------------------------
(* Congestion calculator                                                   *)

\* lines 431-439: the scores float() accepts; a pick without a "score" field
\* stands for one whose score is None or not a number
NumericScores(ps) ==
    LET scored == SelectSeq(ps, LAMBDA p : "score" \in DOMAIN p)
    IN  [i \in 1..Len(scored) |-> scored[i].score]

\* a slip that forgets max(0.0, ...)
Gap_signed(a, b) == a - b

\* lines 448-449
Gap(a, b) == Max2(0, a - b)

\* min(1.0, gap / max(1e-9, mid)) for mid > 0
GapRatio(gap, mid) == IF gap >= mid THEN SCALE ELSE RoundDiv(gap * SCALE, mid)

\* a slip that swaps the weights of the two gaps
KonsenRaw_swapped(vals) ==
    LET s1 == vals[1]
        s2 == vals[2]
        s5 == IF Len(vals) >= 5 THEN vals[5] ELSE vals[Len(vals)]
        r12 == GapRatio(Gap(s1, s2), KONSEN_GAP12_MID)
        r15 == GapRatio(Gap(s1, s5), KONSEN_GAP15_MID)
    IN  Round1(Clamp0_100((SCALE - r12) * 60 + (SCALE - r15) * 40))

\* lines 444-456: the congestion before zero-fix, for two or more scores
KonsenRaw(vals) ==
    LET s1 == vals[1]
        s2 == vals[2]
        s5 == IF Len(vals) >= 5 THEN vals[5] ELSE vals[Len(vals)]
        r12 == GapRatio(Gap(s1, s2), KONSEN_GAP12_MID)
        r15 == GapRatio(Gap(s1, s5), KONSEN_GAP15_MID)
    IN  Round1(Clamp0_100((SCALE - r12) * 40 + (SCALE - r15) * 60))

\* a slip that never replaces a zero
ZeroFixed_off(raw, rid) == raw

\* lines 458-463
ZeroFixed(raw, rid) ==
    IF env.KONSEN_ZERO_FIX_ENABLE /\ raw = 0
    THEN Round1(KONSEN_ZERO_MIN
                + 10 * FracTimes(stable_hash_to_0_1(KonsenSeed),
                                 (KONSEN_ZERO_MAX - KONSEN_ZERO_MIN) \div 10))
    ELSE raw

\* a slip that starts 'somewhat congested' at 40
KonsenLabel_from40(k) ==
    IF k >= 80 * SCALE THEN "extreme"
    ELSE IF k >= 60 * SCALE THEN "congested"
    ELSE IF k >= 40 * SCALE THEN "somewhat congested"
    ELSE "orderly"

\* a slip that needs more than 80 for the top label
KonsenLabel_above80(k) ==
    IF k > 80 * SCALE THEN "extreme"
    ELSE IF k >= 60 * SCALE THEN "congested"
    ELSE IF k >= 30 * SCALE THEN "somewhat congested"
    ELSE "orderly"

\* lines 465-472
KonsenLabel(k) ==
    IF k >= 80 * SCALE THEN "extreme"
    ELSE IF k >= 60 * SCALE THEN "congested"
    ELSE IF k >= 30 * SCALE THEN "somewhat congested"
    ELSE "orderly"

KonsenNeedsHash(ps) ==
    /\ Len(NumericScores(ps)) >= 2
    /\ env.KONSEN_ZERO_FIX_ENABLE
    /\ KonsenRaw(NumericScores(ps)) = 0

calc_konsen_from_picks(ps, rid) ==
    LET vals == NumericScores(ps)
    IN  IF Len(vals) < 2
        THEN [value |-> None, label |-> "unknown", gap12 |-> None,
              gap15 |-> None]
        ELSE LET s1 == vals[1]
                 s2 == vals[2]
                 s5 == IF Len(vals) >= 5 THEN vals[5] ELSE vals[Len(vals)]
                 k  == ZeroFixed(KonsenRaw(vals), rid)
             IN  [value |-> Some(k), label |-> KonsenLabel(k),
                  gap12 |-> Some(Round2(Gap(s1, s2))),
                  gap15 |-> Some(Round2(Gap(s1, s5)))]

-----------------------------------------------------------------------------
(* The output record of a race (main, lines 660-673)                       *)

\* a slip that leaves the threshold itself out
FocusOf_above(k) == k.value # None /\ k.value[1] > FOCUS_TH

\* line 661
FocusOf(k) == k.value # None /\ k.value[1] >= FOCUS_TH

\* lines 660-673: what the record holds besides the picks and the race's name
OutputRecord(ps, rid) ==
    LET k == calc_konsen_from_picks(ps, rid)
    IN  [konsen |-> k, focus |-> FocusOf(k), focus_score |-> k.value]

-----------------------------------------------------------------------------
(* Inputs of a pipeline run                                                *)

DefaultEnv ==
    [SKIP_IF_NO_DATA |-> TRUE, SKIP_FLAT_TOTAL |-> TRUE,
     COMPRESS_ENABLE |-> TRUE, TIE_JITTER_ENABLE |-> TRUE,
     TIE_JITTER_TRIGGER |-> TIE_JITTER_TRIGGER,
     KONSEN_ZERO_FIX_ENABLE |-> TRUE, KICHI_W |-> 80, JIRO_W |-> 20,
     BET_ENABLED |-> TRUE, BET_UNIT |-> 100, BOX_N |-> 5, FOCUS_ONLY |-> TRUE]

\* the three switches that steer main's loop body, each on or off
Envs ==
    {[DefaultEnv EXCEPT !.SKIP_IF_NO_DATA = a, !.SKIP_FLAT_TOTAL = b,
                        !.COMPRESS_ENABLE = c] : a, b, c \in BOOLEAN}

Umabans == 1..MaxUmaban

\* the field: horses 1..n, n = 0 when the entry list could not be parsed
Fields == {[i \in 1..n |-> i] : n \in 0..MaxUmaban}

\* raw values in tenths: rising with the horse number, all equal, and
\* falling through zero into the negatives
RawRising(u) == 500 + 13 * u
RawEqual(u) == 480
RawFalling(u) == 20 - 15 * u

\* parse_kichiuma_fp keeps any row whose number is in 1..18, in the field or not
KichiMaps ==
    {[u \in K |-> RawRising(u)] : K \in SUBSET Umabans}
    \cup {[u \in K |-> RawEqual(u)] : K \in SUBSET Umabans}

\* parse_jiro8_speed_by_race_id zips the number row with the speed row
JiroMaps ==
    {[u \in 1..m |-> RawFalling(u)] : m \in 0..MaxUmaban}
    \cup {[u \in 1..m |-> RawEqual(u)] : m \in 0..MaxUmaban}

\* digest prefixes of the seeds 0..n: all zero, all ones, and mixed
HashFamiliesUpTo(n) ==
    {[s \in 0..n |-> <<0, 0>>],
     [s \in 0..n |-> <<Limb - 1, Limb - 1>>],
     [s \in 0..n |-> <<(21845 * (s + 1)) % Limb, (40503 * s) % Limb>>]}

HashFamilies == HashFamiliesUpTo(MaxUmaban)

-----------------------------------------------------------------------------
(* main: the body of the per-race loop                                     *)

Idle == /\ fn = "" /\ args = <<>> /\ ret = <<>>

\* jra_result.py has not run: no cumulative file
NoResults == cum_file = None /\ day_runs = <<>>

Init ==
    /\ pc = "fetch"
    /\ env \in Envs
    /\ race_id = "202605010201"
    /\ horses \in Fields
    /\ kichi_raw = EmptyMap /\ jiro_raw = EmptyMap
    /\ use_kichi = FALSE /\ use_jiro = FALSE
    /\ total_0_100 = EmptyMap
    /\ display_scores = EmptyMap /\ compressed_0_100 = EmptyMap
    /\ picks = <<>>
    /\ md5 = EmptyMap
    /\ konsen = None
    /\ focus = FALSE
    /\ focus_score = None
    /\ skip_reason = ""
    /\ Idle
    /\ NoResults

field_n == Len(horses)

\* lines 632-633
Fetch ==
    /\ pc = "fetch"
    /\ kichi_raw' \in KichiMaps
    /\ jiro_raw' \in JiroMaps
    /\ pc' = "gate"
    /\ UNCHANGED <<env, race_id, horses, use_kichi, use_jiro, total_0_100,
                   display_scores, compressed_0_100, picks, md5, konsen,
                   focus, focus_score,
                   skip_reason, uvars, rvars>>

\* lines 635-643
Gate ==
    /\ pc = "gate"
    /\ use_kichi' = enough_points(Cardinality(DOMAIN kichi_raw), field_n,
                                  MIN_KICHI_N)
    /\ use_jiro' = enough_points(Cardinality(DOMAIN jiro_raw), field_n,
                                 MIN_JIRO_N)
    /\ IF env.SKIP_IF_NO_DATA /\ ~use_kichi' /\ ~use_jiro'
       THEN pc' = "skipped" /\ skip_reason' = "no data"
       ELSE pc' = "score" /\ skip_reason' = skip_reason
    /\ UNCHANGED <<env, race_id, horses, kichi_raw, jiro_raw, total_0_100,
                   display_scores, compressed_0_100, picks, md5, konsen,
                   focus, focus_score,
                   uvars, rvars>>

\* a slip that normalises a source whatever the gate said
NormalizedIfUsed_always(use, raw) == normalize_to_0_100(raw)

\* lines 645-646
NormalizedIfUsed(use, raw) == IF use THEN normalize_to_0_100(raw) ELSE EmptyMap

\* a slip that leaves an empty composite empty
Composite_nofallback(hs, kichi_norm, jiro_norm) ==
    combine_scores(kichi_norm, jiro_norm)

\* lines 648-650
Composite(hs, kichi_norm, jiro_norm) ==
    LET total == combine_scores(kichi_norm, jiro_norm)
    IN  IF DOMAIN total = {}
        THEN [u \in {hs[i] : i \in 1..Len(hs)} |-> 0]
        ELSE total

\* lines 645-650
Score ==
    /\ pc = "score"
    /\ total_0_100' = Composite(horses, NormalizedIfUsed(use_kichi, kichi_raw),
                                NormalizedIfUsed(use_jiro, jiro_raw))
    /\ pc' = "display"
    /\ UNCHANGED <<env, race_id, horses, kichi_raw, jiro_raw, use_kichi,
                   use_jiro, display_scores, compressed_0_100, picks, md5,
                   konsen, focus, focus_score,
                   skip_reason, uvars, rvars>>

\* lines 652-656
Display ==
    /\ pc = "display"
    /\ IF env.SKIP_FLAT_TOTAL /\ is_flat_score(total_0_100, field_n)
       THEN /\ pc' = "skipped" /\ skip_reason' = "flat"
            /\ UNCHANGED <<display_scores, compressed_0_100>>
       ELSE /\ pc' = "picks" /\ skip_reason' = skip_reason
            /\ display_scores' = build_display_scores(total_0_100).display
            /\ compressed_0_100' = build_display_scores(total_0_100).compressed
    /\ UNCHANGED <<env, race_id, horses, kichi_raw, jiro_raw, use_kichi,
                   use_jiro, total_0_100, picks, md5, konsen, focus,
                   focus_score,
                   uvars, rvars>>

\* line 657.  hashlib.md5 is a fixed function the model does not compute: the
\* digests of this race's seeds are chosen when the next step is about to
\* read them for the first time, and never change afterwards.
MakePicks ==
    /\ pc = "picks"
    /\ picks' = make_picks(horses, display_scores, compressed_0_100)
    /\ md5' \in IF JitterTriggers(picks') THEN HashFamilies ELSE {md5}
    /\ pc' = "jitter"
    /\ UNCHANGED <<env, race_id, horses, kichi_raw, jiro_raw, use_kichi,
                   use_jiro, total_0_100, display_scores, compressed_0_100,
                   konsen, focus, focus_score,
                   skip_reason, uvars, rvars>>

\* line 658
Jitter ==
    /\ pc = "jitter"
    /\ picks' = apply_tie_jitter_top5(picks, race_id)
    /\ md5' \in IF DOMAIN md5 = {} /\ KonsenNeedsHash(picks')
                THEN HashFamilies ELSE {md5}
    /\ pc' = "konsen"
    /\ UNCHANGED <<env, race_id, horses, kichi_raw, jiro_raw, use_kichi,
                   use_jiro, total_0_100, display_scores, compressed_0_100,
                   konsen, focus, focus_score,
                   skip_reason, uvars, rvars>>

\* lines 660-673
Konsen ==
    /\ pc = "konsen"
    /\ konsen' = OutputRecord(picks, race_id).konsen
    /\ focus' = OutputRecord(picks, race_id).focus
    /\ focus_score' = OutputRecord(picks, race_id).focus_score
    /\ pc' = "done"
    /\ UNCHANGED <<env, race_id, horses, kichi_raw, jiro_raw, use_kichi,
                   use_jiro, total_0_100, display_scores, compressed_0_100,
                   picks, md5, skip_reason, uvars, rvars>>

Next == Fetch \/ Gate \/ Score \/ Display \/ MakePicks \/ Jitter \/ Konsen

Spec == Init /\ [][Next]_vars

-----------------------------------------------------------------------------
(* Unit harness: one call of one function on arguments drawn from bounded  *)
(* sets, outside any pipeline run                                          *)

NoRace ==
    /\ pc = "idle"
    /\ race_id = ""
    /\ horses = <<>>
    /\ kichi_raw = EmptyMap /\ jiro_raw = EmptyMap
    /\ use_kichi = FALSE /\ use_jiro = FALSE
    /\ total_0_100 = EmptyMap
    /\ display_scores = EmptyMap /\ compressed_0_100 = EmptyMap
    /\ picks = <<>>
    /\ konsen = None
    /\ focus = FALSE
    /\ focus_score = None
    /\ skip_reason = ""

Returns(f, value) ==
    /\ fn = f
    /\ ret = None
    /\ ret' = Some(value)
    /\ UNCHANGED <<pvars, fn, args, rvars>>

\* enough_points(n_points, field_size, min_n)
InitGate ==
    /\ NoRace /\ NoResults /\ env = DefaultEnv /\ md5 = EmptyMap
    /\ fn = "enough_points"
    /\ args \in [n_points : 0..MaxPoints, field_size : 0..MaxFieldSize,
                 min_n : (-1)..MaxMinN]
    /\ ret = None

CallEnoughPoints ==
    Returns("enough_points",
            enough_points(args.n_points, args.field_size, args.min_n))

SpecGate == InitGate /\ [][CallEnoughPoints]_vars

\* normalize_to_0_100(vals): raw values in tenths, negatives included
RawSamples == {-25, -10, 0, 513}

MapsOver(keys, values) == UNION {[K -> values] : K \in SUBSET keys}

InitNorm ==
    /\ NoRace /\ NoResults /\ env = DefaultEnv /\ md5 = EmptyMap
    /\ fn = "normalize_to_0_100"
    /\ args \in MapsOver(1..MaxNormKeys, RawSamples)
    /\ ret = None

CallNormalize == Returns("normalize_to_0_100", normalize_to_0_100(args))

SpecNorm == InitNorm /\ [][CallNormalize]_vars

\* combine_scores(kichi_norm, jiro_norm) under several pairs of weights:
\* the default, even, one-sided, not summing to 1, and one negative
WeightChoices == {<<80, 20>>, <<50, 50>>, <<100, 0>>, <<80, 40>>, <<120, -20>>}
NormSamples == {0, 333333, 100 * SCALE}

InitCombine ==
    /\ NoRace /\ NoResults /\ md5 = EmptyMap
    /\ \E w \in WeightChoices :
          env = [DefaultEnv EXCEPT !.KICHI_W = w[1], !.JIRO_W = w[2]]
    /\ fn = "combine_scores"
    /\ args \in [kichi_norm : MapsOver(1..MaxCombineKeys, NormSamples),
                 jiro_norm : MapsOver(1..MaxCombineKeys, NormSamples)]
    /\ ret = None

CallCombine ==
    Returns("combine_scores", combine_scores(args.kichi_norm, args.jiro_norm))

SpecCombine == InitCombine /\ [][CallCombine]_vars

\* stable_hash_to_0_1(seed) over digest prefixes from 00000000 to ffffffff
LimbSamples == {0, 1, 2, 255, 256, 4095, 32767, 32768, 40503, Limb - 2,
                Limb - 1}

InitHash ==
    /\ NoRace /\ NoResults /\ env = DefaultEnv
    /\ \E hi \in LimbSamples, lo \in LimbSamples :
          md5 = [s \in {KonsenSeed} |-> <<hi, lo>>]
    /\ fn = "stable_hash_to_0_1"
    /\ args = KonsenSeed
    /\ ret = None

CallStableHash == Returns("stable_hash_to_0_1", stable_hash_to_0_1(args))

SpecHash == InitHash /\ [][CallStableHash]_vars

\* is_flat_score looks at the number of values, the smallest and the largest:
\* horse 1 holds the smallest, every other horse the smallest plus the spread
FlatSpreads == {0, FLAT_RANGE_MAX - 1, FLAT_RANGE_MAX, FLAT_RANGE_MAX + 1,
                50 * SCALE}

FlatMaps ==
    {[u \in 1..n |-> IF u = 1 THEN 20 * SCALE ELSE 20 * SCALE + d] :
        n \in 0..MaxFlatKeys, d \in FlatSpreads}

InitFlat ==
    /\ NoRace /\ NoResults /\ env = DefaultEnv /\ md5 = EmptyMap
    /\ fn = "is_flat_score"
    /\ args \in [score_by_umaban : FlatMaps, field_n : 0..MaxFlatField]
    /\ ret = None

CallIsFlatScore ==
    Returns("is_flat_score", is_flat_score(args.score_by_umaban, args.field_n))

\* the detector alone, and the detector where main calls it (lines 652-654)
NextFlat == Next \/ CallIsFlatScore

SpecFlat == (Init \/ InitFlat) /\ [][NextFlat]_vars

\* display scores for make_picks: the display minimum and two scores that
\* differ but round to the same two decimals; a horse left out of the map
\* counts as 0.0
PickSamples == {SCORE_MIN * SCALE, 35 * SCALE + 5010, 35 * SCALE + 5040}

InitPicks ==
    /\ NoRace /\ NoResults /\ env = DefaultEnv /\ md5 = EmptyMap
    /\ fn = "make_picks"
    /\ \E n \in 0..MaxPickField :
          args \in [horses : {[i \in 1..n |-> i]},
                    total_score_scaled : MapsOver(1..n, PickSamples)]
    /\ ret = None

CallMakePicks ==
    Returns("make_picks",
            make_picks(args.horses, args.total_score_scaled, EmptyMap))

SpecPicks == InitPicks /\ [][CallMakePicks]_vars

\* pick lists for the jitter, in any order of score: 0.0 (a horse without a
\* display score), just above the display minimum, and the display maximum;
\* the top pick may also sit 0.01 under the maximum.  The horse numbers run
\* against the ranks.
JitterTopSamples == {0, SCORE_MIN * SCALE + 100, SCORE_MAX * SCALE - 100,
                     SCORE_MAX * SCALE}
JitterRestSamples == {0, SCORE_MIN * SCALE + 100, SCORE_MAX * SCALE}

PickOf(n, i, sc) ==
    [mark |-> IF i <= 5 THEN MARKS5[i] ELSE "", umaban |-> n + 1 - i,
     score |-> sc, raw_0_100 |-> None]

JitterLists ==
    {<<>>} \cup
    UNION {{[i \in 1..n |-> PickOf(n, i, IF i = 1 THEN t ELSE r[i])] :
               t \in JitterTopSamples, r \in [2..n -> JitterRestSamples]} :
           n \in 1..MaxJitterPicks}

\* jitter off, and jitter on with TIE_JITTER_TRIGGER at -0.1, 0.0 and 0.1
JitterEnvs ==
    {[DefaultEnv EXCEPT !.TIE_JITTER_ENABLE = FALSE]} \cup
    {[DefaultEnv EXCEPT !.TIE_JITTER_TRIGGER = t] : t \in {-1000, 0, 1000}}

InitJitter ==
    /\ NoRace /\ NoResults
    /\ env \in JitterEnvs
    /\ md5 \in HashFamiliesUpTo(MaxJitterPicks)
    /\ fn = "apply_tie_jitter_top5"
    /\ args \in [picks : JitterLists, race_id : {"202605010201"}]
    /\ ret = None

CallTieJitter ==
    Returns("apply_tie_jitter_top5",
            apply_tie_jitter_top5(args.picks, args.race_id))

SpecJitter == InitJitter /\ [][CallTieJitter]_vars

\* pick lists for the congestion value, in any order of score: 70.0, 69.6 and
\* 65.0, or no score at all; and the list 70.0, 69.5, 69.0, 68.0, 65.0
KonsenSamples == {SCORE_MAX * SCALE, SCORE_MAX * SCALE - 4000,
                  SCORE_MAX * SCALE - 5 * SCALE}

Unscored(n, i) ==
    [mark |-> IF i <= 5 THEN MARKS5[i] ELSE "", umaban |-> n + 1 - i,
     raw_0_100 |-> None]

KonsenExample ==
    [i \in 1..5 |->
        PickOf(5, i, SCORE_MAX * SCALE - <<0, 5000, SCALE, 2 * SCALE, 5 * SCALE>>[i])]

KonsenLists ==
    {KonsenExample} \cup
    UNION {{[i \in 1..n |-> IF r[i] = None THEN Unscored(n, i)
                            ELSE PickOf(n, i, r[i][1])] :
               r \in [1..n -> {None} \cup {Some(v) : v \in KonsenSamples}]} :
           n \in 0..MaxKonsenPicks}

KonsenEnvs == {[DefaultEnv EXCEPT !.KONSEN_ZERO_FIX_ENABLE = b] : b \in BOOLEAN}

InitKonsen ==
    /\ NoRace /\ NoResults
    /\ env \in KonsenEnvs
    /\ md5 \in HashFamiliesUpTo(MaxKonsenPicks)
    /\ fn = "calc_konsen_from_picks"
    /\ args \in [picks : KonsenLists, race_id : {"202605010201"}]
    /\ ret = None

CallCalcKonsen ==
    Returns("calc_konsen_from_picks",
            calc_konsen_from_picks(args.picks, args.race_id))

SpecKonsen == InitKonsen /\ [][CallCalcKonsen]_vars

\* pick lists for the output record: 70.0, 69.8, 69.6 and 65.0, or no score
RecordSamples == {SCORE_MAX * SCALE, SCORE_MAX * SCALE - 2000,
                  SCORE_MAX * SCALE - 4000, SCORE_MAX * SCALE - 5 * SCALE}

RecordLists ==
    UNION {{[i \in 1..n |-> IF r[i] = None THEN Unscored(n, i)
                            ELSE PickOf(n, i, r[i][1])] :
               r \in [1..n -> {None} \cup {Some(v) : v \in RecordSamples}]} :
           n \in 0..MaxRecordPicks}

InitRecord ==
    /\ NoRace /\ NoResults
    /\ env \in KonsenEnvs
    /\ md5 \in HashFamiliesUpTo(MaxRecordPicks)
    /\ fn = "main: record"
    /\ args \in [picks : RecordLists, race_id : {"202605010201"}]
    /\ ret = None

CallRecord == Returns("main: record", OutputRecord(args.picks, args.race_id))

\* the record alone, and the record where main builds it
NextRecord == Next \/ CallRecord

SpecRecord == (Init \/ InitRecord) /\ [][NextRecord]_vars

\* composite values for the display transformer: steps of 2.5 from 0.0, and
\* the neighbours of 0.0, 50.0 and 100.0
DisplaySamples ==
    {Min2(100 * SCALE, k * 25000) : k \in 0..MaxDisplaySteps}
       \cup {1, 50 * SCALE - 1, 50 * SCALE + 1, 100 * SCALE - 1, 100 * SCALE}

DisplayEnvs == {[DefaultEnv EXCEPT !.COMPRESS_ENABLE = b] : b \in BOOLEAN}

InitDisplay ==
    /\ NoRace /\ NoResults /\ md5 = EmptyMap
    /\ env \in DisplayEnvs
    /\ fn = "build_display_scores"
    /\ \E a \in DisplaySamples, b \in DisplaySamples :
          args = [u \in 1..2 |-> IF u = 1 THEN a ELSE b]
    /\ ret = None

CallBuildDisplay ==
    Returns("build_display_scores", build_display_scores(args).display)

SpecDisplay == InitDisplay /\ [][CallBuildDisplay]_vars

-----------------------------------------------------------------------------
(* src/jra_result.py: the cumulative totals of pnl_total_jra_cum.json.     *)
(* Amounts are whole yen.  The rates (roi, hit_rate, pred_hit_rate) and    *)
(* last_updated are derived from the counters or copied, and left out.     *)

\* lines 300-314
empty_total_template ==
    [invest |-> 0, payout |-> 0, profit |-> 0, races |-> 0, hits |-> 0,
     pred_races |-> 0, pred_hits |-> 0, pred_by_place |-> EmptyMap]

\* dst.setdefault(plc, {"races": 0, "hits": 0, ...})
PlaceEntry(m, plc) ==
    IF plc \in DOMAIN m THEN m[plc] ELSE [races |-> 0, hits |-> 0]

\* lines 338-348
apply_delta_place(dst_by_place, src_by_place, sign) ==
    [plc \in (DOMAIN dst_by_place) \cup (DOMAIN src_by_place) |->
        IF plc \in DOMAIN src_by_place
        THEN [races |-> Max2(0, PlaceEntry(dst_by_place, plc).races
                                   + sign * src_by_place[plc].races),
              hits  |-> Max2(0, PlaceEntry(dst_by_place, plc).hits
                                   + sign * src_by_place[plc].hits)]
        ELSE dst_by_place[plc]]

\* a slip that forgets to take the day's earlier total out
SubtractDay_kept(cum_total, old) == cum_total

\* lines 371-387: the day's earlier total is taken out, nothing falls below 0
SubtractDay(cum_total, old) ==
    [cum_total EXCEPT
        !.invest = Max2(0, @ - old.invest),
        !.payout = Max2(0, @ - old.payout),
        !.races = Max2(0, @ - old.races),
        !.hits = Max2(0, @ - old.hits),
        !.pred_races = Max2(0, @ - old.pred_races),
        !.pred_hits = Max2(0, @ - old.pred_hits),
        !.pred_by_place = apply_delta_place(@, old.pred_by_place, -1)]

\* lines 389-399
AddDay(cum_total, day_total) ==
    [cum_total EXCEPT
        !.invest = @ + day_total.invest,
        !.payout = @ + day_total.payout,
        !.races = @ + day_total.races,
        !.hits = @ + day_total.hits,
        !.pred_races = @ + day_total.pred_races,
        !.pred_hits = @ + day_total.pred_hits,
        !.pred_by_place = apply_delta_place(@, day_total.pred_by_place, 1)]

\* lines 316-324
recompute_rates(total) == [total EXCEPT !.profit = total.payout - total.invest]

\* lines 350-425; file is None when the file is missing or does not parse
update_cumulative(file, day_total, date_key) ==
    LET cum_total == IF file = None THEN empty_total_template
                     ELSE file[1].total
        days == IF file = None THEN EmptyMap ELSE file[1].days
        base == IF date_key \in DOMAIN days
                THEN SubtractDay(cum_total, days[date_key])
                ELSE cum_total
    IN  [total |-> recompute_rates(AddDay(base, day_total)),
         days |-> [d \in (DOMAIN days) \cup {date_key} |->
                      IF d = date_key THEN day_total ELSE days[d]]]

CumDates == {"20260501", "20260502", "20260503"}

\* day totals as main adds them up (lines 596-611): nothing bought; one race
\* bought and lost; two bought, one won; one bought and won at another place
DayTotals ==
    {[invest |-> 0, payout |-> 0, profit |-> 0, races |-> 0, hits |-> 0,
      pred_races |-> 0, pred_hits |-> 0, pred_by_place |-> EmptyMap],
     [invest |-> 1000, payout |-> 0, profit |-> -1000, races |-> 1, hits |-> 0,
      pred_races |-> 2, pred_hits |-> 1,
      pred_by_place |-> [plc \in {"tokyo"} |-> [races |-> 2, hits |-> 1]]],
     [invest |-> 2000, payout |-> 12990, profit |-> 10990, races |-> 2,
      hits |-> 1, pred_races |-> 3, pred_hits |-> 1,
      pred_by_place |-> [plc \in {"tokyo", "kyoto"} |->
                            IF plc = "tokyo" THEN [races |-> 1, hits |-> 0]
                            ELSE [races |-> 2, hits |-> 1]]],
     [invest |-> 1000, payout |-> 500, profit |-> -500, races |-> 1, hits |-> 1,
      pred_races |-> 1, pred_hits |-> 1,
      pred_by_place |-> [plc \in {"kyoto"} |-> [races |-> 1, hits |-> 1]]]}

InitCum ==
    /\ NoRace /\ NoResults /\ env = DefaultEnv /\ md5 = EmptyMap
    /\ Idle

\* main, lines 622-627: one run of jra_result.py for a date
UpdateCumulative ==
    /\ Len(day_runs) < MaxUpdates
    /\ \E date_key \in CumDates, day_total \in DayTotals :
          /\ cum_file' = Some(update_cumulative(cum_file, day_total, date_key))
          /\ day_runs' = Append(day_runs, [date_key |-> date_key,
                                           day_total |-> day_total])
    /\ UNCHANGED <<pvars, uvars>>

SpecCum == InitCum /\ [][UpdateCumulative]_vars

-----------------------------------------------------------------------------
(* src/jra_result.py: hit judge.  A row or pick is a record whose umaban is *)
(* as_int(x.get("umaban"), 0): 0 stands for a missing or unreadable number. *)

PositiveUmabans(rows) ==
    {rows[i].umaban : i \in {j \in 1..Len(rows) : rows[j].umaban > 0}}

\* a slip that counts the rows instead of the distinct horse numbers
judge_pred_hit_rows(pred_top5, result_top3) ==
    /\ Len(result_top3) >= 3
    /\ PositiveUmabans(result_top3) \subseteq PositiveUmabans(pred_top5)

\* lines 279-285
judge_pred_hit(pred_top5, result_top3) ==
    LET sel == PositiveUmabans(pred_top5)
        top == PositiveUmabans(result_top3)
    IN  IF Cardinality(top) < 3 THEN FALSE ELSE top \subseteq sel

\* the picks of a prediction: distinct horses in rising order, 0 for a pick
\* without a readable number
RECURSIVE RowsOf(_)
RowsOf(S) ==
    IF S = {} THEN <<>>
    ELSE <<[umaban |-> SetMin(S)]>> \o RowsOf(S \ {SetMin(S)})

JudgePreds == {RowsOf(S) : S \in SUBSET (0..MaxJudgeUmaban)}

\* the rows of a result page: up to four, any numbers, repeats included
JudgeResults ==
    UNION {[1..n -> [umaban : 0..MaxJudgeUmaban]] : n \in 0..4}

InitJudge ==
    /\ NoRace /\ NoResults /\ env = DefaultEnv /\ md5 = EmptyMap
    /\ fn = "judge_pred_hit"
    /\ args \in [pred_top5 : JudgePreds, result_top3 : JudgeResults]
    /\ ret = None

CallJudgePredHit ==
    Returns("judge_pred_hit", judge_pred_hit(args.pred_top5, args.result_top3))

SpecJudge == InitJudge /\ [][CallJudgePredHit]_vars

-----------------------------------------------------------------------------
(* src/jra_result.py: the bet of one race (main, lines 499-522)            *)

\* lines 82-85, for r = 3
comb_count3(n) == IF n < 3 THEN 0 ELSE (n * (n - 1) * (n - 2)) \div 6

\* lines 287-289
calc_box_invest(unit, box_n) == unit * comb_count3(box_n)

\* lines 291-295
calc_box_payout(unit, sanrenpuku_payout_100) ==
    IF sanrenpuku_payout_100 <= 0 THEN 0
    ELSE RoundTo(sanrenpuku_payout_100 * unit, 100) \div 100

\* lines 249-259
pick_top5_from_pred_race(ps) == SubSeq(ps, 1, Min2(5, Len(ps)))

\* lines 499-522: r_picks and r_focus are the prediction's picks and focus
\* flag, result_top3 and san_payout come from the result page
RaceBet(r_picks, r_focus, result_top3, san_payout) ==
    LET pred_top5 == pick_top5_from_pred_race(r_picks)
        pred_hit  == judge_pred_hit(pred_top5, result_top3)
        do_bet    == env.BET_ENABLED /\ (IF env.FOCUS_ONLY THEN r_focus ELSE TRUE)
        use_n     == Min2(env.BOX_N, Max2(0, Len(pred_top5)))
        hit       == do_bet /\ pred_hit /\ san_payout > 0
    IN  [pred_top5 |-> pred_top5,
         pred_hit |-> pred_hit,
         enabled |-> do_bet,
         invest |-> IF do_bet THEN calc_box_invest(env.BET_UNIT, use_n) ELSE 0,
         payout |-> IF hit THEN calc_box_payout(env.BET_UNIT, san_payout) ELSE 0,
         hit |-> hit]

\* the picks of a prediction in rank order, the first three finishers (fewer
\* when the result page gave fewer), the payout per 100 yen
BetPicks == {[i \in 1..n |-> [umaban |-> i]] : n \in 0..6}
BetResults == {RowsOf(S) : S \in {T \in SUBSET (1..6) : Cardinality(T) <= 3}}
BetEnvs ==
    {[DefaultEnv EXCEPT !.BOX_N = n, !.BET_ENABLED = b, !.FOCUS_ONLY = f] :
        n \in 0..MaxBoxN, b \in BOOLEAN, f \in BOOLEAN}

InitBet ==
    /\ NoRace /\ NoResults /\ md5 = EmptyMap
    /\ env \in BetEnvs
    /\ fn = "main: bet"
    /\ args \in [picks : BetPicks, focus : BOOLEAN, result_top3 : BetResults,
                 san_payout : {0, 1290}]
    /\ ret = None

CallRaceBet ==
    Returns("main: bet",
            RaceBet(args.picks, args.focus, args.result_top3, args.san_payout))

SpecBet == InitBet /\ [][CallRaceBet]_vars

-----------------------------------------------------------------------------
(* The loop body as a function of its inputs: what lines 635-673 leave     *)
(* behind for a field and two raw maps                                     *)

RaceOutcome(hs, kr, jr) ==
    LET uk == enough_points(Cardinality(DOMAIN kr), Len(hs), MIN_KICHI_N)
        uj == enough_points(Cardinality(DOMAIN jr), Len(hs), MIN_JIRO_N)
        total == Composite(hs, NormalizedIfUsed(uk, kr),
                           NormalizedIfUsed(uj, jr))
        d == build_display_scores(total)
        ps == apply_tie_jitter_top5(
                  make_picks(hs, d.display, d.compressed), race_id)
    IN  IF env.SKIP_IF_NO_DATA /\ ~uk /\ ~uj
        THEN [skip |-> "no data", total |-> EmptyMap, picks |-> <<>>,
              konsen |-> None]
        ELSE IF env.SKIP_FLAT_TOTAL /\ is_flat_score(total, Len(hs))
        THEN [skip |-> "flat", total |-> total, picks |-> <<>>,
              konsen |-> None]
        ELSE [skip |-> "", total |-> total, picks |-> ps,
              konsen |-> calc_konsen_from_picks(ps, race_id)]

-----------------------------------------------------------------------------
(* Claims                                                                  *)

InDisplayRange(s) == SCORE_MIN * SCALE <= s /\ s <= SCORE_MAX * SCALE
FieldSet == {horses[i] : i \in 1..Len(horses)}
Ended == pc \in {"done", "skipped"}
BothSourcesFail == pc \notin {"fetch", "gate"} /\ ~use_kichi /\ ~use_jiro

\* C1: every display score the pipeline produces lies within
\* [SCORE_MIN, SCORE_MAX]: every value of the display map and the score of
\* every pick make_picks returns (pc = "jitter" holds the picks as returned),
\* also when the composite map does not cover every horse of the field.
\* Stated for raw maps that hold horses of the field only.
C1_DisplayScoresInRange ==
    ((DOMAIN kichi_raw) \cup (DOMAIN jiro_raw) \subseteq FieldSet) =>
        /\ \A k \in DOMAIN display_scores :
              InDisplayRange(display_scores[k])
        /\ pc = "jitter" =>
              \A i \in 1..Len(picks) : InDisplayRange(picks[i].score)

\* C2 as claimed: whenever both sources are empty or fail the gate, the race is
\* not dropped, every horse of the field gets composite 0.0 and a non-empty
\* ranking comes out.
C2_NoDataRaceKept ==
    (Ended /\ BothSourcesFail) =>
        /\ pc = "done"
        /\ total_0_100 = [u \in FieldSet |-> 0]
        /\ picks # <<>>

\* C2 as amended: when both sources are empty or fail the gate, the race is
\* dropped if SKIP_IF_NO_DATA is on; if it is off every horse of the field
\* gets composite 0.0, and the race is then either dropped by the flatness
\* skip (which needs SKIP_FLAT_TOTAL on and a field of three or more) or
\* ranked: min(5, field size) picks in field order, all with the same score.
C2_NoDataFallback ==
    BothSourcesFail =>
        IF env.SKIP_IF_NO_DATA
        THEN pc = "skipped" /\ skip_reason = "no data"
        ELSE /\ pc # "score" => total_0_100 = [u \in FieldSet |-> 0]
             /\ pc = "skipped" =>
                   /\ skip_reason = "flat"
                   /\ env.SKIP_FLAT_TOTAL
                   /\ field_n >= 3
             /\ pc \in {"jitter", "konsen", "done"} =>
                   /\ Len(picks) = Min2(5, field_n)
                   /\ \A i \in 1..Len(picks) :
                         /\ picks[i].umaban = horses[i]
                         /\ picks[i].score = picks[1].score

C2_Witness ==
    /\ pc = "done" /\ BothSourcesFail /\ ~env.SKIP_IF_NO_DATA
    /\ Len(picks) >= 3

\* C3: the fraction stable_hash_to_0_1 returns lies in [0,1) for every value
\* of the 32-bit digest prefix; it is never 1.
C3_FractionBelowOne ==
    ret # None => FracIsBelowOne(ret[1])

\* C4: enough_points returns true exactly when n > 0 and
\* n >= max(3, min(min_n, field_size - 1)), for every point count, field
\* size (0 and 1 included) and min_n.
C4_GateMatchesSpecFormula ==
    ret # None =>
        (ret[1] <=>
            /\ args.n_points > 0
            /\ args.n_points
                  >= Max2(3, Min2(args.min_n, args.field_size - 1)))

C4_Witness ==
    /\ ret = Some(TRUE)
    /\ args.field_size = 0
    /\ args.min_n > 3

\* C5 as claimed: for every field size f with f - 1 <= min_n, a source with
\* f - 1 points passes the gate.
C5_OneMissingPasses ==
    (/\ ret # None
     /\ args.field_size - 1 <= args.min_n
     /\ args.n_points = args.field_size - 1) => ret[1]

\* C5 as amended: for every field size f >= 4 with f - 1 <= min_n, a source
\* with f - 1 points passes the gate (below four horses the floor of three
\* points leaves no room for a missing one).
C5_OneMissingPassesFromFour ==
    (/\ ret # None
     /\ args.field_size >= 4
     /\ args.field_size - 1 <= args.min_n
     /\ args.n_points = args.field_size - 1) => ret[1]

C5_Witness ==
    /\ ret = Some(TRUE)
    /\ args.field_size = 4
    /\ args.n_points = 3
    /\ args.min_n = MIN_KICHI_N

\* C6: a source that fails the gate is treated as absent: the composite map,
\* the skip decision, the picks and the congestion record of a run are those
\* of the run with that source's raw map empty, so two runs that differ only
\* in the raw map of a failing source end alike.
C6_FailingSourceIsAbsent ==
    Ended =>
        LET outcome == [skip |-> skip_reason, total |-> total_0_100,
                        picks |-> picks, konsen |-> konsen]
        IN  /\ ~use_kichi => outcome = RaceOutcome(horses, EmptyMap, jiro_raw)
            /\ ~use_jiro => outcome = RaceOutcome(horses, kichi_raw, EmptyMap)

C6_Witness ==
    /\ pc = "done"
    /\ ~use_kichi /\ Cardinality(DOMAIN kichi_raw) = 2
    /\ use_jiro

\* C7: for a raw map with at least two distinct values, normalize_to_0_100
\* returns a map with the same keys whose values lie in [0,100], with every
\* key of the maximum raw value at 100 and every key of the minimum at 0.
C7_MinMaxScaling ==
    (ret # None /\ Cardinality(Values(args)) >= 2) =>
        /\ DOMAIN ret[1] = DOMAIN args
        /\ \A k \in DOMAIN args :
              /\ 0 <= ret[1][k] /\ ret[1][k] <= 100 * SCALE
              /\ args[k] = SetMax(Values(args)) => ret[1][k] = 100 * SCALE
              /\ args[k] = SetMin(Values(args)) => ret[1][k] = 0

C7_Witness ==
    /\ ret # None
    /\ Cardinality(Values(args)) = 3
    /\ \E k \in DOMAIN args : args[k] < 0
    /\ \E k \in DOMAIN args : 0 < ret[1][k] /\ ret[1][k] < 100 * SCALE

\* C8: normalize_to_0_100 returns the empty map for the empty map, and maps
\* every key to exactly 50.0 when all raw values are equal (a single entry
\* included).
C8_EmptyAndEqual ==
    ret # None =>
        /\ DOMAIN args = {} => DOMAIN ret[1] = {}
        /\ Cardinality(Values(args)) = 1 =>
              /\ DOMAIN ret[1] = DOMAIN args
              /\ \A k \in DOMAIN args : ret[1][k] = 50 * SCALE

C8_Witness ==
    /\ ret # None
    /\ Cardinality(DOMAIN args) >= 2
    /\ Cardinality(Values(args)) = 1
    /\ \A k \in DOMAIN ret[1] : ret[1][k] = 50 * SCALE

\* C9: for a key present in both normalized maps combine_scores yields
\* w_primary * a + w_secondary * b (to the nearest fixed-point unit), and the
\* value lies in [0,100] when a and b do and the weights are non-negative and
\* sum to 1.
C9_WeightedSum ==
    ret # None =>
        \A k \in (DOMAIN args.kichi_norm) \cap (DOMAIN args.jiro_norm) :
            LET exact100 == env.KICHI_W * args.kichi_norm[k]
                            + env.JIRO_W * args.jiro_norm[k]
            IN  /\ 100 * ret[1][k] - exact100 <= 50
                /\ exact100 - 100 * ret[1][k] <= 50
                /\ (/\ env.KICHI_W >= 0 /\ env.JIRO_W >= 0
                    /\ env.KICHI_W + env.JIRO_W = 100) =>
                       (0 <= ret[1][k] /\ ret[1][k] <= 100 * SCALE)

C9_Witness ==
    /\ ret # None
    /\ env.KICHI_W = 80 /\ env.JIRO_W = 20
    /\ \E k \in (DOMAIN args.kichi_norm) \cap (DOMAIN args.jiro_norm) :
          /\ args.kichi_norm[k] = 100 * SCALE
          /\ args.jiro_norm[k] = 0
          /\ ret[1][k] = 80 * SCALE

\* C10: the keys of the composite map are the union of the keys of the two
\* normalized maps, and a key present in one of them only gets that map's
\* value, not multiplied by any weight.
C10_UnionAndUnscaled ==
    ret # None =>
        /\ DOMAIN ret[1] = (DOMAIN args.kichi_norm) \cup (DOMAIN args.jiro_norm)
        /\ \A k \in (DOMAIN args.kichi_norm) \ (DOMAIN args.jiro_norm) :
              ret[1][k] = args.kichi_norm[k]
        /\ \A k \in (DOMAIN args.jiro_norm) \ (DOMAIN args.kichi_norm) :
              ret[1][k] = args.jiro_norm[k]

C10_Witness ==
    /\ ret # None
    /\ \E k \in (DOMAIN args.kichi_norm) \ (DOMAIN args.jiro_norm) :
          ret[1][k] = 100 * SCALE
    /\ \E k \in (DOMAIN args.jiro_norm) \ (DOMAIN args.kichi_norm) :
          ret[1][k] = 333333

\* C11: is_flat_score answers true exactly when the map is non-empty, holds at
\* least min(FLAT_MIN_COUNT, max(3, field size)) values, and its largest value
\* exceeds its smallest by at most FLAT_RANGE_MAX (a range of exactly 3.0 is
\* flat); main skips a race for flatness only when that holds of the composite
\* map and SKIP_FLAT_TOTAL is set.
FlatByCountAndRange(m, n) ==
    /\ DOMAIN m # {}
    /\ Cardinality(DOMAIN m) >= Min2(FLAT_MIN_COUNT, Max2(3, n))
    /\ \A u \in DOMAIN m, v \in DOMAIN m : m[u] - m[v] <= FLAT_RANGE_MAX

C11_FlatExactlyWhen ==
    /\ (fn = "is_flat_score" /\ ret # None) =>
          (ret[1] <=> FlatByCountAndRange(args.score_by_umaban,
                                              args.field_n))
    /\ skip_reason = "flat" =>
          /\ env.SKIP_FLAT_TOTAL
          /\ FlatByCountAndRange(total_0_100, field_n)

\* ten values whose range is exactly 3.0, in a field of twelve
C11_Witness ==
    /\ fn = "is_flat_score" /\ ret = Some(TRUE)
    /\ args.field_n = 12
    /\ Cardinality(DOMAIN args.score_by_umaban) = FLAT_MIN_COUNT
    /\ args.score_by_umaban[2] - args.score_by_umaban[1] = FLAT_RANGE_MAX

\* C12: make_picks returns exactly min(5, field size) picks; their scores never
\* rise from one rank to the next; of two horses with exactly the same display
\* score the one earlier in the field (the smaller horse number) is ranked
\* first; and the k-th pick carries the k-th mark.
C12_RankedPicks ==
    (fn = "make_picks" /\ ret # None) =>
        LET ps == ret[1]
            d(u) == Get(args.total_score_scaled, u, 0)
        IN  /\ Len(ps) = Min2(5, Len(args.horses))
            /\ \A i \in 1..Len(ps) : ps[i].mark = MARKS5[i]
            /\ \A i \in 1..Len(ps), j \in 1..Len(ps) :
                  i < j =>
                     /\ ps[i].score >= ps[j].score
                     /\ d(ps[i].umaban) = d(ps[j].umaban) =>
                           ps[i].umaban < ps[j].umaban

\* six horses, five picks, and a tie among the picked
C12_Witness ==
    /\ fn = "make_picks" /\ ret # None
    /\ Len(args.horses) = 6 /\ Len(ret[1]) = 5
    /\ Get(args.total_score_scaled, 2, 0) = Get(args.total_score_scaled, 5, 0)
    /\ Get(args.total_score_scaled, 3, 0) > Get(args.total_score_scaled, 2, 0)
    /\ ret[1][1].umaban = 3 /\ ret[1][2].umaban = 2 /\ ret[1][3].umaban = 5

\* C13: apply_tie_jitter_top5 leaves the pick list exactly as it was when
\* TIE_JITTER_ENABLE is off, when the list is empty, or when the top pick's
\* score is below SCORE_MAX - max(0, TIE_JITTER_TRIGGER); with the default
\* offset 0 a list is changed only if its top score is at least SCORE_MAX.
C13_UntouchedUnlessTriggered ==
    (fn = "apply_tie_jitter_top5" /\ ret # None) =>
        /\ (\/ ~env.TIE_JITTER_ENABLE
            \/ args.picks = <<>>
            \/ args.picks[1].score
                  < SCORE_MAX * SCALE - Max2(0, env.TIE_JITTER_TRIGGER))
              => ret[1] = args.picks
        /\ (env.TIE_JITTER_TRIGGER = 0 /\ ret[1] # args.picks)
              => args.picks[1].score >= SCORE_MAX * SCALE

\* jitter switched off, a top pick at the maximum, a digest that would move it
C13_Witness ==
    /\ fn = "apply_tie_jitter_top5" /\ ret # None
    /\ ~env.TIE_JITTER_ENABLE
    /\ Len(args.picks) = 5
    /\ args.picks[1].score = SCORE_MAX * SCALE
    /\ md5[args.picks[1].umaban] = <<Limb - 1, Limb - 1>>
    /\ ret[1] = args.picks

TriggeredCall ==
    /\ fn = "apply_tie_jitter_top5" /\ ret # None
    /\ env.TIE_JITTER_ENABLE
    /\ args.picks # <<>>
    /\ args.picks[1].score
          >= SCORE_MAX * SCALE - Max2(0, env.TIE_JITTER_TRIGGER)

\* C14: when the jitter triggers, the score of each of the first five picks
\* becomes max(SCORE_MIN, score - fraction * TIE_JITTER_MAX) rounded to two
\* decimals, the fraction being the hash of race id and horse number; the new
\* score lies between SCORE_MIN and SCORE_MAX, and is within TIE_JITTER_MAX of
\* the old one whenever the old one was at least SCORE_MIN.
C14_JitteredScores ==
    TriggeredCall =>
        \A i \in 1..Min2(5, Len(args.picks)) :
            LET old == args.picks[i].score
                new == ret[1][i].score
                off == FracTimes(stable_hash_to_0_1(args.picks[i].umaban),
                                 TIE_JITTER_MAX)
            IN  /\ new = Round2(Max2(SCORE_MIN * SCALE, old - off))
                /\ SCORE_MIN * SCALE <= new /\ new <= SCORE_MAX * SCALE
                /\ old >= SCORE_MIN * SCALE =>
                      (old - new <= TIE_JITTER_MAX /\ new - old <= TIE_JITTER_MAX)

\* the largest jitter: 70.0 falls to 69.8, 1.01 is held at 1.0
C14_Witness ==
    /\ TriggeredCall
    /\ Len(args.picks) >= 2
    /\ args.picks[1].score = SCORE_MAX * SCALE
    /\ ret[1][1].score = SCORE_MAX * SCALE - TIE_JITTER_MAX
    /\ args.picks[2].score = SCORE_MIN * SCALE + 100
    /\ ret[1][2].score = SCORE_MIN * SCALE

\* C15: the jitter does not re-sort: the list keeps its length, and every
\* position keeps its horse number and mark; nothing but the score of the
\* first five picks may change, even if the scores then no longer descend.
C15_NoResort ==
    (fn = "apply_tie_jitter_top5" /\ ret # None) =>
        /\ Len(ret[1]) = Len(args.picks)
        /\ \A i \in 1..Len(args.picks) :
              /\ [ret[1][i] EXCEPT !.score = args.picks[i].score] = args.picks[i]
              /\ i > 5 => ret[1][i] = args.picks[i]

\* six tied picks: a later one ends above an earlier, the sixth is not touched
C15_Witness ==
    /\ TriggeredCall
    /\ Len(args.picks) = 6
    /\ \A i \in 1..6 : args.picks[i].score = SCORE_MAX * SCALE
    /\ ret[1][3].score < ret[1][4].score
    /\ ret[1][5].score < SCORE_MAX * SCALE
    /\ md5[args.picks[6].umaban] # <<0, 0>>
    /\ ret[1][6] = args.picks[6]

\* C16: the jitter is deterministic, and what it does to a pick depends on the
\* race id, the pick's horse number and its score alone: in any list that
\* triggers, a pick among the first five gets the score the same pick gets as
\* second of a list of two.
JitteredAlone(p) ==
    apply_tie_jitter_top5(<<PickOf(Len(args.picks) + 1, 1, SCORE_MAX * SCALE),
                            p>>, args.race_id)[2].score

C16_PerturbationByHorseAndScore ==
    TriggeredCall =>
        \A i \in 1..Min2(5, Len(args.picks)) :
            ret[1][i].score = JitteredAlone([args.picks[i] EXCEPT !.mark = MARKS5[2]])

\* a pick moved by the jitter at rank 4 whose horse number is not its rank
C16_Witness ==
    /\ TriggeredCall
    /\ Len(args.picks) = 5
    /\ args.picks[4].umaban = 2
    /\ md5[4] # md5[2]
    /\ ret[1][4].score # args.picks[4].score
    /\ ret[1][4].score # ret[1][2].score
    /\ args.picks[4].score = args.picks[2].score

KonsenCall == fn = "calc_konsen_from_picks" /\ ret # None
ScoredCount ==
    Cardinality({i \in 1..Len(args.picks) : "score" \in DOMAIN args.picks[i]})

\* C17: for every pick list, in any order of score, calc_konsen_from_picks
\* returns a value that is null or lies in [0, 100], and gaps that are never
\* negative; the value is null and the label 'unknown' exactly when fewer than
\* two picks carry a numeric score.
C17_ValueAndGapsInRange ==
    KonsenCall =>
        /\ ret[1].value # None =>
              (0 <= ret[1].value[1] /\ ret[1].value[1] <= 100 * SCALE)
        /\ ret[1].gap12 # None => ret[1].gap12[1] >= 0
        /\ ret[1].gap15 # None => ret[1].gap15[1] >= 0
        /\ ret[1].value = None <=> ScoredCount < 2
        /\ ret[1].label = "unknown" <=> ScoredCount < 2

\* a list that rises: 65.0, a pick without score, 70.0
C17_Witness ==
    /\ KonsenCall
    /\ Len(args.picks) = 3
    /\ "score" \notin DOMAIN args.picks[2]
    /\ "score" \in DOMAIN args.picks[1] /\ "score" \in DOMAIN args.picks[3]
    /\ args.picks[1].score < args.picks[3].score
    /\ ret[1].gap12 = Some(0) /\ ret[1].gap15 = Some(0)
    /\ ret[1].value = Some(100 * SCALE)

\* the congestion formula of section 4.8, written out from the scored picks
ClaimedKonsen ==
    LET vals  == NumericScores(args.picks)
        s1    == vals[1]
        s2    == vals[2]
        s5    == IF Len(vals) >= 5 THEN vals[5] ELSE vals[Len(vals)]
        gap12 == Max2(0, s1 - s2)
        gap15 == Max2(0, s1 - s5)
        r12   == Min2(SCALE, RoundDiv(gap12 * SCALE, KONSEN_GAP12_MID))
        r15   == Min2(SCALE, RoundDiv(gap15 * SCALE, KONSEN_GAP15_MID))
        k     == (SCALE - r12) * 40 + (SCALE - r15) * 60
    IN  [value |-> Round1(Max2(0, Min2(100 * SCALE, k))),
         gap12 |-> gap12, gap15 |-> gap15]

\* C18: with two or more scored picks the congestion before zero-fix is
\* ((1 - r12) * 0.4 + (1 - r15) * 0.6) * 100 clamped to [0, 100] and rounded to
\* one decimal, where gap12 = max(0, s1 - s2), gap15 = max(0, s1 - s5) with s5
\* the fifth score or the last there is, and r = min(1, gap / mid); the scores
\* 70.0, 69.5, 69.0, 68.0, 65.0 give 15.0.
C18_KonsenFormula ==
    (KonsenCall /\ ScoredCount >= 2) =>
        /\ (~env.KONSEN_ZERO_FIX_ENABLE \/ ClaimedKonsen.value # 0) =>
              ret[1].value = Some(ClaimedKonsen.value)
        /\ ret[1].gap12 = Some(ClaimedKonsen.gap12)
        /\ ret[1].gap15 = Some(ClaimedKonsen.gap15)
        /\ args.picks = KonsenExample => ret[1].value = Some(15 * SCALE)

C18_Witness ==
    /\ KonsenCall
    /\ args.picks = KonsenExample
    /\ ret[1] = [value |-> Some(15 * SCALE), label |-> "orderly",
                 gap12 |-> Some(5000), gap15 |-> Some(5 * SCALE)]

\* C19: when the congestion rounds to exactly 0.0 and zero-fix is on, the value
\* returned is one inside [KONSEN_ZERO_MIN, KONSEN_ZERO_MAX] that depends on
\* the race id alone, so with zero-fix on the value returned is never 0.0; a
\* value other than 0.0 is returned as computed.
C19_ZeroFix ==
    (KonsenCall /\ ScoredCount >= 2) =>
        LET raw == KonsenRaw(NumericScores(args.picks))
            v   == ret[1].value[1]
            other == <<PickOf(2, 1, SCORE_MAX * SCALE),
                       PickOf(2, 2, SCORE_MIN * SCALE)>>
        IN  /\ raw # 0 => v = raw
            /\ (raw = 0 /\ ~env.KONSEN_ZERO_FIX_ENABLE) => v = 0
            /\ (raw = 0 /\ env.KONSEN_ZERO_FIX_ENABLE) =>
                  /\ KONSEN_ZERO_MIN <= v /\ v <= KONSEN_ZERO_MAX
                  /\ v # 0
                  /\ v = calc_konsen_from_picks(other, args.race_id).value[1]

\* gaps of 5.0 make the congestion 0.0; the largest digest turns it into 9.8
C19_Witness ==
    /\ KonsenCall
    /\ env.KONSEN_ZERO_FIX_ENABLE
    /\ Len(args.picks) = 2
    /\ ret[1].gap12 = Some(5 * SCALE)
    /\ md5[KonsenSeed] = <<Limb - 1, Limb - 1>>
    /\ ret[1].value = Some(KONSEN_ZERO_MAX)

\* C20: the label follows from the value returned alone: 'extreme' from 80,
\* 'congested' from 60 to under 80, 'somewhat congested' from 30 to under 60,
\* 'orderly' under 30; every value that is not null gets one of the four.
C20_LabelByValue ==
    (KonsenCall /\ ret[1].value # None) =>
        LET v == ret[1].value[1]
        IN  /\ ret[1].label = "extreme" <=> v >= 80 * SCALE
            /\ ret[1].label = "congested" <=> (60 * SCALE <= v /\ v < 80 * SCALE)
            /\ ret[1].label = "somewhat congested"
                  <=> (30 * SCALE <= v /\ v < 60 * SCALE)
            /\ ret[1].label = "orderly" <=> v < 30 * SCALE

\* 70.0, 69.6, 70.0: half of the first gap's weight is lost, the value is 80.0
C20_Witness ==
    /\ KonsenCall
    /\ ret[1].value = Some(80 * SCALE)
    /\ ret[1].label = "extreme"

RecordCall == fn = "main: record" /\ ret # None

\* C21: the focus flag of a race's output record is true exactly when the
\* congestion value is not null and at least FOCUS_TH (30.0 itself included),
\* and the record's focus_score is the congestion value.
C21_FocusByThreshold ==
    /\ RecordCall =>
          /\ ret[1].focus <=> (/\ ret[1].konsen.value # None
                               /\ ret[1].konsen.value[1] >= FOCUS_TH)
          /\ ret[1].focus_score = ret[1].konsen.value
    /\ pc = "done" =>
          /\ focus <=> (konsen.value # None /\ konsen.value[1] >= FOCUS_TH)
          /\ focus_score = konsen.value

\* 70.0, 69.8, 65.0: the congestion value is exactly 30.0
C21_Witness ==
    /\ RecordCall
    /\ ret[1].konsen.value = Some(30 * SCALE)
    /\ ret[1].focus
    /\ ret[1].focus_score = Some(30 * SCALE)

\* C22: compression followed by rescaling never turns a smaller composite into
\* a larger display score, with compression on or off; equal composites get
\* equal display scores; and with compression off a composite of 100 becomes
\* exactly SCORE_MAX (70.0) and a composite of 0 exactly SCORE_MIN (1.0).
C22_DisplayMonotone ==
    (fn = "build_display_scores" /\ ret # None) =>
        /\ args[1] <= args[2] => ret[1][1] <= ret[1][2]
        /\ args[1] = args[2] => ret[1][1] = ret[1][2]
        /\ \A u \in 1..2 :
              ~env.COMPRESS_ENABLE =>
                 /\ args[u] = 100 * SCALE => ret[1][u] = SCORE_MAX * SCALE
                 /\ args[u] = 0 => ret[1][u] = SCORE_MIN * SCALE

\* compression off, composites 0 and 100
C22_Witness ==
    /\ fn = "build_display_scores" /\ ret # None
    /\ ~env.COMPRESS_ENABLE
    /\ args[1] = 0 /\ args[2] = 100 * SCALE
    /\ ret[1][1] = SCORE_MIN * SCALE /\ ret[1][2] = SCORE_MAX * SCALE

\* C23: every key of every map built for a race (the raw indicator maps, the
\* composite map, the compressed and the display map) is a horse number in
\* 1..18 that belongs to a horse of the race's field.
C23_MapKeysInField ==
    \A m \in {kichi_raw, jiro_raw, total_0_100, compressed_0_100,
              display_scores} :
        DOMAIN m \subseteq (FieldSet \cap (1..18))

\* the dates run so far, and the day total each was last run with
RunDates == {day_runs[i].date_key : i \in 1..Len(day_runs)}
LatestRun(d) ==
    LET last == CHOOSE i \in 1..Len(day_runs) :
                    /\ day_runs[i].date_key = d
                    /\ \A j \in (i + 1)..Len(day_runs) : day_runs[j].date_key # d
    IN  day_runs[last].day_total

RECURSIVE SumOver(_, _)
SumOver(dates, f) ==
    IF dates = {} THEN 0
    ELSE LET d == CHOOSE x \in dates : TRUE
         IN  f[d] + SumOver(dates \ {d}, f)

SumOfLatest(counter(_)) ==
    SumOver(RunDates, [d \in RunDates |-> counter(LatestRun(d))])

\* C24: starting without a cumulative file, after any runs of
\* update_cumulative every cumulative counter (invest, payout, races, hits,
\* pred_races, pred_hits, and races and hits of each place) is the sum, over
\* the dates run, of the day total the date was last run with; profit is
\* payout - invest; and running a date again with the total it was last run
\* with leaves the totals as they are.
C24_NoDoubleCount ==
    cum_file # None =>
        LET t == cum_file[1].total
            AtPlace(plc, dt) == PlaceEntry(dt.pred_by_place, plc)
        IN  /\ t.invest = SumOfLatest(LAMBDA dt : dt.invest)
            /\ t.payout = SumOfLatest(LAMBDA dt : dt.payout)
            /\ t.races = SumOfLatest(LAMBDA dt : dt.races)
            /\ t.hits = SumOfLatest(LAMBDA dt : dt.hits)
            /\ t.pred_races = SumOfLatest(LAMBDA dt : dt.pred_races)
            /\ t.pred_hits = SumOfLatest(LAMBDA dt : dt.pred_hits)
            /\ \A plc \in {"tokyo", "kyoto"} :
                  /\ PlaceEntry(t.pred_by_place, plc).races
                        = SumOfLatest(LAMBDA dt : AtPlace(plc, dt).races)
                  /\ PlaceEntry(t.pred_by_place, plc).hits
                        = SumOfLatest(LAMBDA dt : AtPlace(plc, dt).hits)
            /\ t.profit = t.payout - t.invest
            /\ \A d \in RunDates :
                  update_cumulative(cum_file, LatestRun(d), d).total = t

\* a date run twice with different totals, and another date in between
C24_Witness ==
    /\ Len(day_runs) = 3
    /\ day_runs[1].date_key = day_runs[3].date_key
    /\ day_runs[2].date_key # day_runs[1].date_key
    /\ day_runs[1].day_total.invest = 2000
    /\ day_runs[2].day_total.invest = 1000
    /\ day_runs[3].day_total.invest = 1000
    /\ day_runs[3].day_total.payout = 500
    /\ cum_file[1].total.invest = 2000
    /\ cum_file[1].total.payout = 500 + day_runs[2].day_total.payout

C26_JitterNeverRaises ==
    [][pc = "jitter" =>
          \A i \in 1..Len(picks) : picks'[i].score <= picks[i].score]_vars

AllEqual(m) == \A u \in DOMAIN m, v \in DOMAIN m : m[u] = m[v]
SkippedAsFlat == pc = "skipped" /\ skip_reason = "flat"
FallbackCase ==
    /\ Ended /\ BothSourcesFail
    /\ ~env.SKIP_IF_NO_DATA /\ env.SKIP_FLAT_TOTAL
    /\ field_n >= 3

\* the one source that passed the gate, when it is the only one and all its
\* raw values are equal
OnlySourceAllEqual(raw) ==
    /\ Ended /\ env.SKIP_FLAT_TOTAL
    /\ \/ raw = kichi_raw /\ use_kichi /\ ~use_jiro
       \/ raw = jiro_raw /\ use_jiro /\ ~use_kichi
    /\ AllEqual(raw)

\* C27 as claimed: with flatness skipping on, a race on the all-zero fallback
\* with a field of three or more is skipped as flat, and so is every race
\* whose only usable source has all-equal raw values.
C27_EqualAlwaysSkipped ==
    /\ FallbackCase => SkippedAsFlat
    /\ \A raw \in {kichi_raw, jiro_raw} :
          OnlySourceAllEqual(raw) => SkippedAsFlat

\* C27 as amended: with flatness skipping on, a race on the all-zero fallback
\* with a field of three or more is skipped as flat; a race whose only usable
\* source has all-equal raw values is skipped as flat exactly when that source
\* covers at least min(FLAT_MIN_COUNT, max(3, field size)) horses, and is
\* ranked otherwise.
C27_EqualSkippedWhenCovered ==
    /\ FallbackCase => SkippedAsFlat
    /\ \A raw \in {kichi_raw, jiro_raw} :
          OnlySourceAllEqual(raw) =>
             IF Cardinality(DOMAIN raw) >= Min2(FLAT_MIN_COUNT, Max2(3, field_n))
             THEN SkippedAsFlat
             ELSE pc = "done" /\ picks # <<>>

\* three equal values for a field of four: the race is ranked
C27_Witness ==
    /\ OnlySourceAllEqual(kichi_raw)
    /\ DOMAIN kichi_raw = 1..3 /\ field_n = 4
    /\ env = DefaultEnv
    /\ pc = "done" /\ Len(picks) = 4
    /\ picks[1].score = picks[3].score

FocusAgreesWithLabel(flag, label) ==
    /\ label \in {"extreme", "congested", "somewhat congested", "orderly",
                  "unknown"}
    /\ flag <=> label \in {"extreme", "congested", "somewhat congested"}
    /\ ~flag <=> label \in {"orderly", "unknown"}

\* C28: with the default thresholds the focus flag and the label of an output
\* record agree: focus is true exactly for the three congested labels and
\* false exactly for 'orderly' and 'unknown'; a zero-fixed congestion value is
\* labelled 'orderly' and does not make the race a focus race.
C28_FocusAgreesWithLabel ==
    /\ RecordCall =>
          /\ FocusAgreesWithLabel(ret[1].focus, ret[1].konsen.label)
          /\ (/\ env.KONSEN_ZERO_FIX_ENABLE
              /\ ScoredCount >= 2
              /\ KonsenRaw(NumericScores(args.picks)) = 0)
                => (ret[1].konsen.label = "orderly" /\ ~ret[1].focus)
    /\ pc = "done" =>
          /\ FocusAgreesWithLabel(focus, konsen.label)
          /\ KonsenNeedsHash(picks) => (konsen.label = "orderly" /\ ~focus)

\* a congestion of 0.0 replaced by the zero-fix
C28_Witness ==
    /\ RecordCall
    /\ env.KONSEN_ZERO_FIX_ENABLE
    /\ ScoredCount >= 2
    /\ KonsenRaw(NumericScores(args.picks)) = 0
    /\ ret[1].konsen.value # Some(0)
    /\ ret[1].konsen.label = "orderly"
    /\ ~ret[1].focus

\* C29: every pick of a race is a horse of its field and no horse is picked
\* twice, also when an indicator map has horse numbers that are not in the
\* field; a pick's score is the display score of its own horse, never that of
\* a key outside the field.
C29_PicksFromField ==
    /\ \A i \in 1..Len(picks) :
          /\ picks[i].umaban \in FieldSet
          /\ \A j \in 1..Len(picks) :
                picks[i].umaban = picks[j].umaban => i = j
    /\ pc = "jitter" =>
          \A i \in 1..Len(picks) :
              picks[i].score = Round2(Get(display_scores, picks[i].umaban, 0))

\* a kichiuma map with a horse 4 that a field of three does not have
C29_Witness ==
    /\ pc = "jitter"
    /\ horses = <<1, 2, 3>>
    /\ use_kichi /\ 4 \in DOMAIN kichi_raw
    /\ 4 \in DOMAIN display_scores
    /\ Len(picks) = 3

\* C30: a bet is recorded as a hit, or with a payout, only if the first three
\* finishers are all among the horses paid for, the first min(BOX_N, number
\* of picks) picks whose C(n,3) combinations are the recorded invest, for
\* every BOX_N; and a race with invest 0 records no payout.
C30_HitOnlyIfBought ==
    (fn = "main: bet" /\ ret # None) =>
        LET use_n  == Min2(env.BOX_N, Len(ret[1].pred_top5))
            bought == {ret[1].pred_top5[i].umaban : i \in 1..use_n}
            top    == PositiveUmabans(args.result_top3)
        IN  /\ (ret[1].hit \/ ret[1].payout > 0) =>
                  (Cardinality(top) >= 3 /\ top \subseteq bought)
            /\ ret[1].invest = 0 => ret[1].payout = 0

====
